---- MODULE Spec2Model ----
(***************************************************************************)
(* Single-shooting differential correction of xz-plane symmetric periodic  *)
(* trajectories: polaris/R3BP/_ssdc_periodic_xzplane.py.                   *)
(*                                                                         *)
(* Numbers are modelled in the finite ring Z_P (values 0..P-1): the state  *)
(* vector is a 6-vector over Z_P indexed 0..5 as in the source, and numpy  *)
(* arrays are heap objects reached through references, so that             *)
(* "state = state0" binds a second name to the caller's array.             *)
(***************************************************************************)
EXTENDS Integers, Sequences, FiniteSets, TLC

\* ---------------------------------------------------------------- bounds
P == 3
MaxIter == 3
MaxTol == 2

Vals == 0..(P - 1)
Idx == 0..5
Idx3 == 0..2
InitVals == {0, 1}
Runs == {1, 2}
Arrays == {1, 2}
ValidModes == {"z", "period"}
Modes == ValidModes \cup {"amplitude"}
MUs == {1, 2}

Mod(n) == ((n % P) + P) % P

InitStates == [Idx -> InitVals]
ConcStates == {s \in InitStates : s[1] = 0 /\ s[3] = 0 /\ s[5] = 0 /\ s[0] = 1}
Zero3 == [i \in Idx3 |-> 0]
Zero6 == [i \in Idx |-> 0]

\* ------------------------------------------------- propagation oracle
\* propagate_cr3bp is imported from ..Propagator; its dynamics are replaced
\* by a polynomial flow over Z_P with its exact Jacobian and time derivative.
OracleFails(m, s, t) == Mod(s[0] + m) = 1 /\ s[1] = 0 /\ s[2] = 0

FlowStatef(m, s, t) ==
    [i \in Idx |->
        CASE i = 0 -> Mod(s[0] + t * s[3])
          [] i = 1 -> Mod(s[1] + t * s[4] + m * s[0] * s[0])
          [] i = 2 -> Mod(s[2] + t * s[5])
          [] i = 3 -> Mod(s[3] + t * s[0] + s[2] * s[2])
          [] i = 4 -> Mod(s[4] + t * s[1])
          [] i = 5 -> Mod(s[5] + t * s[2] + s[0] * s[4])]

FlowJac(m, s, t, i, j) ==
    CASE i = 0 -> (IF j = 0 THEN 1 ELSE IF j = 3 THEN t ELSE 0)
      [] i = 1 -> (IF j = 0 THEN Mod(2 * m * s[0]) ELSE IF j = 1 THEN 1
                   ELSE IF j = 4 THEN t ELSE 0)
      [] i = 2 -> (IF j = 2 THEN 1 ELSE IF j = 5 THEN t ELSE 0)
      [] i = 3 -> (IF j = 0 THEN t ELSE IF j = 2 THEN Mod(2 * s[2])
                   ELSE IF j = 3 THEN 1 ELSE 0)
      [] i = 4 -> (IF j = 1 THEN t ELSE IF j = 4 THEN 1 ELSE 0)
      [] i = 5 -> (IF j = 0 THEN s[4] ELSE IF j = 2 THEN t
                   ELSE IF j = 4 THEN s[0] ELSE IF j = 5 THEN 1 ELSE 0)

\* last column of the stm history: the final 6x6 matrix, flattened row-major
FlowStms(m, s, t) == [k \in 0..35 |-> FlowJac(m, s, t, k \div 6, k % 6)]

FlowDstatef(m, s, t) ==
    [i \in Idx |->
        CASE i = 0 -> s[3]
          [] i = 1 -> s[4]
          [] i = 2 -> s[5]
          [] i = 3 -> s[0]
          [] i = 4 -> s[1]
          [] i = 5 -> s[2]]

propagate_cr3bp(m, s, t) ==
    [statef |-> FlowStatef(m, s, t),
     stms |-> FlowStms(m, s, t),
     dstatef |-> FlowDstatef(m, s, t)]

NoProp == [statef |-> Zero6, stms |-> [k \in 0..35 |-> 0], dstatef |-> Zero6]

\* ---------------------------------------------------- correction solver
\* ssdc is imported from ..Propagator: the square (3 equations, 3 unknowns)
\* linear update xii = xi - df^-1 ferr, failing on a singular matrix.
Cof(df, i, j) ==
    Mod(df[(i + 1) % 3][(j + 1) % 3] * df[(i + 2) % 3][(j + 2) % 3]
        - df[(i + 1) % 3][(j + 2) % 3] * df[(i + 2) % 3][(j + 1) % 3])

Det(df) == Mod(df[0][0] * Cof(df, 0, 0) + df[0][1] * Cof(df, 0, 1)
               + df[0][2] * Cof(df, 0, 2))

Units == {d \in Vals : \E k \in Vals : Mod(k * d) = 1}

SolverFails(xi, ferr, df) == Det(df) \notin Units

ssdc(xi, ferr, df) ==
    LET dinv == CHOOSE k \in Vals : Mod(k * Det(df)) = 1
        step == [i \in Idx3 |->
                    Mod(dinv * (Cof(df, 0, i) * ferr[0] + Cof(df, 1, i) * ferr[1]
                                + Cof(df, 2, i) * ferr[2]))]
    IN  [i \in Idx3 |-> Mod(xi[i] - step[i])]

\* ------------------------------------------------ pure pieces of the loop
\* period0/2 and thalf*2: binary halving and doubling are exact; periods are
\* counted in units of which every guess holds an even number
Half(p) == p \div 2

\* the half-period returned undoubled
DoubleForgotten(t) == t

Double(t) == t * 2

Periods == {2 * t : t \in InitVals}

\* np.reshape(propout["stms"][:,-1], (6,6))
Reshape(flat) == [i \in Idx |-> [j \in Idx |-> flat[6 * i + j]]]

\* free-variable vector of the active mode
ExtractXi(f, s, t) ==
    IF f = "z" THEN [i \in Idx3 |-> IF i = 0 THEN s[0] ELSE IF i = 1 THEN s[4] ELSE t]
    ELSE [i \in Idx3 |-> IF i = 0 THEN s[0] ELSE IF i = 1 THEN s[2] ELSE s[4]]

\* residual: y, vx, vz of the propagated state
ExtractFerr(po) == [i \in Idx3 |-> po.statef[2 * i + 1]]

\* Jacobian of the residual with respect to the free variables
BuildDf(f, po) ==
    LET stm == Reshape(po.stms)
    IN  IF f = "z"
        THEN [i \in Idx3 |-> [j \in Idx3 |->
                 IF j = 0 THEN stm[2 * i + 1][0]
                 ELSE IF j = 1 THEN stm[2 * i + 1][4]
                 ELSE po.dstatef[2 * i + 1]]]
        ELSE [i \in Idx3 |-> [j \in Idx3 |->
                 IF j = 0 THEN stm[2 * i + 1][0]
                 ELSE IF j = 1 THEN stm[2 * i + 1][2]
                 ELSE stm[2 * i + 1][4]]]

\* the "period" mapping applied in "z" mode as well
InjectOneMapping(f, s, t, x) ==
    IF f \in {"z", "period"}
    THEN [state |-> [s EXCEPT ![0] = x[0], ![2] = x[1], ![4] = x[2]], thalf |-> t]
    ELSE [state |-> s, thalf |-> t]

\* update of state and thalf from the free-variable vector
Inject(f, s, t, x) ==
    IF f = "z"
    THEN [state |-> [s EXCEPT ![0] = x[0], ![4] = x[1]], thalf |-> x[2]]
    ELSE IF f = "period"
    THEN [state |-> [s EXCEPT ![0] = x[0], ![2] = x[1], ![4] = x[2]], thalf |-> t]
    ELSE [state |-> s, thalf |-> t]

SumSq(v) == v[0] * v[0] + v[1] * v[1] + v[2] * v[2]

\* the tolerance test with <= for <
BelowTolInclusive(v, tol) == SumSq(v) <= tol * tol

\* la.norm(ferr) < tolDC, for tolDC >= 0
BelowTol(v, tol) == SumSq(v) < tol * tol

\* a loop that runs once more than iter_max
NextPcOffByOne(it, itmax) == IF it <= itmax THEN "prop" ELSE "ret"

\* for iteration in range(iter_max): next position of the loop
NextPc(it, itmax) == IF it < itmax THEN "prop" ELSE "ret"


\* ------------------------------------------------------------------ state
VARIABLES
    arr,        \* heap: the callers' numpy arrays, by reference
    pc,         \* position of each call
    mu, state0, period0, fix, tolDC, iter_max,   \* arguments (state0: a reference)
    state,      \* local name "state": a reference into arr
    thalf, conv_flag, iteration, propout, xi, ferr, xii,   \* locals
    warned,     \* the xy-plane warning was printed
    ret,        \* the returned tuple (period, state, conv_flag)
    entry,      \* value of the caller's array when the call was made
    nprop, nsolve, nwrite,   \* calls of propagate_cr3bp, of ssdc, write-backs
    hist,       \* the residual computed in each iteration, in order
    lastprop,   \* the state and half-period handed to the last propagation
    retstate    \* value of the returned array at the moment of return

args == <<mu, state0, period0, fix, tolDC, iter_max>>
locals == <<state, thalf, conv_flag, iteration, propout, xi, ferr, xii>>
ghosts == <<entry, nprop, nsolve, nwrite, hist, lastprop, retstate>>
vars == <<arr, pc, args, locals, warned, ret, ghosts>>

NoRet == [period |-> 0, state |-> 0, conv_flag |-> 0]

InitRuns ==
    /\ pc = [r \in Runs |-> "idle"]
    /\ mu = [r \in Runs |-> 0]
    /\ state0 = [r \in Runs |-> 0]
    /\ period0 = [r \in Runs |-> 0]
    /\ fix = [r \in Runs |-> "period"]
    /\ tolDC = [r \in Runs |-> 0]
    /\ iter_max = [r \in Runs |-> 0]
    /\ state = [r \in Runs |-> 0]
    /\ thalf = [r \in Runs |-> 0]
    /\ conv_flag = [r \in Runs |-> 0]
    /\ iteration = [r \in Runs |-> 0]
    /\ propout = [r \in Runs |-> NoProp]
    /\ xi = [r \in Runs |-> Zero3]
    /\ ferr = [r \in Runs |-> Zero3]
    /\ xii = [r \in Runs |-> Zero3]
    /\ warned = [r \in Runs |-> FALSE]
    /\ ret = [r \in Runs |-> NoRet]
    /\ entry = [r \in Runs |-> Zero6]
    /\ nprop = [r \in Runs |-> 0]
    /\ nsolve = [r \in Runs |-> 0]
    /\ nwrite = [r \in Runs |-> 0]
    /\ hist = [r \in Runs |-> <<>>]
    /\ lastprop = [r \in Runs |-> [state |-> Zero6, thalf |-> 0]]
    /\ retstate = [r \in Runs |-> Zero6]

\* one caller, with an array of its own
Init ==
    /\ arr \in [Arrays -> InitStates]
    /\ arr[2] = Zero6
    /\ InitRuns

\* two callers, whose initial-state arguments may be one array
InitConc ==
    /\ arr \in [Arrays -> ConcStates]
    /\ InitRuns

\* ---------------------------------------------------------------- actions
\* lines 17-37: bind the arguments, warn, initialize, enter the loop
CallWith(r, a, m, p0, f, tol, im) ==
    /\ pc[r] = "idle"
    /\ mu' = [mu EXCEPT ![r] = m]
    /\ state0' = [state0 EXCEPT ![r] = a]
    /\ period0' = [period0 EXCEPT ![r] = p0]
    /\ fix' = [fix EXCEPT ![r] = f]
    /\ tolDC' = [tolDC EXCEPT ![r] = tol]
    /\ iter_max' = [iter_max EXCEPT ![r] = im]
    /\ warned' = [warned EXCEPT ![r] = (arr[a][1] # 0)]
    /\ state' = [state EXCEPT ![r] = a]
    /\ thalf' = [thalf EXCEPT ![r] = Half(p0)]
    /\ conv_flag' = [conv_flag EXCEPT ![r] = 0]
    /\ iteration' = [iteration EXCEPT ![r] = 0]
    /\ pc' = [pc EXCEPT ![r] = NextPc(0, im)]
    /\ entry' = [entry EXCEPT ![r] = arr[a]]
    /\ UNCHANGED <<arr, propout, xi, ferr, xii, ret, nprop, nsolve, nwrite, hist,
                   lastprop, retstate>>

Call(r) ==
    \E m \in MUs, p0 \in Periods, f \in Modes, tol \in 0..MaxTol, im \in 0..MaxIter :
        CallWith(r, r, m, p0, f, tol, im)

CallConc(r) ==
    \E a \in Arrays, f \in ValidModes :
        CallWith(r, a, 1, Double(1), f, 1, 2)

\* line 39: propagate half-way; a failure of the integration is raised
Propagate(r) ==
    /\ pc[r] = "prop"
    /\ nprop' = [nprop EXCEPT ![r] = @ + 1]
    /\ lastprop' = [lastprop EXCEPT ![r] = [state |-> arr[state[r]], thalf |-> thalf[r]]]
    /\ IF OracleFails(mu[r], arr[state[r]], thalf[r])
       THEN /\ pc' = [pc EXCEPT ![r] = "error"]
            /\ UNCHANGED propout
       ELSE /\ pc' = [pc EXCEPT ![r] = "solve"]
            /\ propout' = [propout EXCEPT ![r] =
                              propagate_cr3bp(mu[r], arr[state[r]], thalf[r])]
    /\ UNCHANGED <<arr, args, state, thalf, conv_flag, iteration, xi, ferr, xii,
                   warned, ret, entry, nsolve, nwrite, hist, retstate>>

\* a solver failure caught, the iteration going on with xi unchanged
SolveFallback(r) ==
    /\ pc[r] = "solve"
    /\ ferr' = [ferr EXCEPT ![r] = ExtractFerr(propout[r])]
    /\ hist' = [hist EXCEPT ![r] = Append(@, ExtractFerr(propout[r]))]
    /\ IF fix[r] \notin ValidModes
       THEN /\ pc' = [pc EXCEPT ![r] = "error"]
            /\ UNCHANGED <<xi, xii, nsolve>>
       ELSE LET x == ExtractXi(fix[r], arr[state[r]], thalf[r])
                e == ExtractFerr(propout[r])
                d == BuildDf(fix[r], propout[r])
            IN  /\ xi' = [xi EXCEPT ![r] = x]
                /\ nsolve' = [nsolve EXCEPT ![r] = @ + 1]
                /\ pc' = [pc EXCEPT ![r] = "write"]
                /\ xii' = [xii EXCEPT ![r] =
                              IF SolverFails(x, e, d) THEN x ELSE ssdc(x, e, d)]
    /\ UNCHANGED <<arr, args, state, thalf, conv_flag, iteration, propout,
                   warned, ret, entry, nprop, nwrite, lastprop, retstate>>

\* lines 40-58: free variables, residual, Jacobian, solver call.  With a mode
\* that is neither "z" nor "period" xi is unbound at line 58: UnboundLocalError.
Solve(r) ==
    /\ pc[r] = "solve"
    /\ ferr' = [ferr EXCEPT ![r] = ExtractFerr(propout[r])]
    /\ hist' = [hist EXCEPT ![r] = Append(@, ExtractFerr(propout[r]))]
    /\ IF fix[r] \notin ValidModes
       THEN /\ pc' = [pc EXCEPT ![r] = "error"]
            /\ UNCHANGED <<xi, xii, nsolve>>
       ELSE LET x == ExtractXi(fix[r], arr[state[r]], thalf[r])
                e == ExtractFerr(propout[r])
                d == BuildDf(fix[r], propout[r])
            IN  /\ xi' = [xi EXCEPT ![r] = x]
                /\ nsolve' = [nsolve EXCEPT ![r] = @ + 1]
                /\ IF SolverFails(x, e, d)
                   THEN /\ pc' = [pc EXCEPT ![r] = "error"]
                        /\ UNCHANGED xii
                   ELSE /\ pc' = [pc EXCEPT ![r] = "write"]
                        /\ xii' = [xii EXCEPT ![r] = ssdc(x, e, d)]
    /\ UNCHANGED <<arr, args, state, thalf, conv_flag, iteration, propout,
                   warned, ret, entry, nprop, nwrite, lastprop, retstate>>

\* the tolerance tested before the write-back, which a converged iteration skips
WriteBackUnlessConverged(r) ==
    /\ pc[r] = "write"
    /\ IF BelowTol(ferr[r], tolDC[r])
       THEN UNCHANGED <<arr, thalf, nwrite>>
       ELSE /\ LET upd == Inject(fix[r], arr[state[r]], thalf[r], xii[r])
               IN  /\ arr' = [arr EXCEPT ![state[r]] = upd.state]
                   /\ thalf' = [thalf EXCEPT ![r] = upd.thalf]
            /\ nwrite' = [nwrite EXCEPT ![r] = @ + 1]
    /\ pc' = [pc EXCEPT ![r] = "check"]
    /\ UNCHANGED <<args, state, conv_flag, iteration, propout, xi, ferr, xii,
                   warned, ret, entry, nprop, nsolve, hist, lastprop, retstate>>

\* lines 60-64: update state from the free-variable vector, in the array
\* that "state" names
WriteBack(r) ==
    /\ pc[r] = "write"
    /\ LET upd == Inject(fix[r], arr[state[r]], thalf[r], xii[r])
       IN  /\ arr' = [arr EXCEPT ![state[r]] = upd.state]
           /\ thalf' = [thalf EXCEPT ![r] = upd.thalf]
    /\ nwrite' = [nwrite EXCEPT ![r] = @ + 1]
    /\ pc' = [pc EXCEPT ![r] = "check"]
    /\ UNCHANGED <<args, state, conv_flag, iteration, propout, xi, ferr, xii,
                   warned, ret, entry, nprop, nsolve, hist, lastprop, retstate>>

\* lines 66-76: convergence test on ferr, break, or next iteration
CheckConv(r) ==
    /\ pc[r] = "check"
    /\ IF BelowTol(ferr[r], tolDC[r])
       THEN /\ conv_flag' = [conv_flag EXCEPT ![r] = 1]
            /\ pc' = [pc EXCEPT ![r] = "ret"]
            /\ UNCHANGED <<xi, iteration>>
       ELSE /\ xi' = [xi EXCEPT ![r] = xii[r]]
            /\ iteration' = [iteration EXCEPT ![r] = @ + 1]
            /\ pc' = [pc EXCEPT ![r] = NextPc(iteration[r] + 1, iter_max[r])]
            /\ UNCHANGED conv_flag
    /\ UNCHANGED <<arr, args, state, thalf, propout, ferr, xii, warned, ret, ghosts>>

\* line 79: return thalf*2, state, conv_flag
Return(r) ==
    /\ pc[r] = "ret"
    /\ ret' = [ret EXCEPT ![r] = [period |-> Double(thalf[r]), state |-> state[r],
                                  conv_flag |-> conv_flag[r]]]
    /\ retstate' = [retstate EXCEPT ![r] = arr[state[r]]]
    /\ pc' = [pc EXCEPT ![r] = "done"]
    /\ UNCHANGED <<arr, args, locals, warned, entry, nprop, nsolve, nwrite, hist,
                   lastprop>>

Next ==
    \/ Call(1)
    \/ Propagate(1)
    \/ Solve(1)
    \/ WriteBack(1)
    \/ CheckConv(1)
    \/ Return(1)

Spec == Init /\ [][Next]_vars

NextConc ==
    \E r \in Runs :
        \/ CallConc(r)
        \/ Propagate(r)
        \/ Solve(r)
        \/ WriteBack(r)
        \/ CheckConv(r)
        \/ Return(r)

SpecConc == InitConc /\ [][NextConc]_vars

\* the call is sequential code: it always takes its next step
SpecFair == Spec /\ WF_vars(Next)


\* the program run alone, as a function of its arguments: lines 34-79
RECURSIVE SoloRun(_, _, _, _, _, _, _)
SoloRun(m, f, tol, im, s, t, it) ==
    IF it >= im
    THEN [raised |-> FALSE, period |-> Double(t), state |-> s, conv_flag |-> 0]
    ELSE IF OracleFails(m, s, t) \/ f \notin ValidModes
    THEN [raised |-> TRUE, period |-> 0, state |-> Zero6, conv_flag |-> 0]
    ELSE LET po == propagate_cr3bp(m, s, t)
             x == ExtractXi(f, s, t)
             e == ExtractFerr(po)
             d == BuildDf(f, po)
         IN  IF SolverFails(x, e, d)
             THEN [raised |-> TRUE, period |-> 0, state |-> Zero6, conv_flag |-> 0]
             ELSE LET upd == Inject(f, s, t, ssdc(x, e, d))
                  IN  IF BelowTol(e, tol)
                      THEN [raised |-> FALSE, period |-> Double(upd.thalf),
                            state |-> upd.state, conv_flag |-> 1]
                      ELSE SoloRun(m, f, tol, im, upd.state, upd.thalf, it + 1)

\* ------------------------------------------------------------ properties
Valid(r) == fix[r] \in ValidModes
Started(r) == pc[r] # "idle"

\* the residual norm of iteration k of run r is below the tolerance
ResidualBelow(r, k) ==
    hist[r][k][0] * hist[r][k][0] + hist[r][k][1] * hist[r][k][1]
        + hist[r][k][2] * hist[r][k][2] < tolDC[r] * tolDC[r]

NoneBelow(r) == \A k \in 1..Len(hist[r]) : ~ResidualBelow(r, k)

\* s, t are base, bt with the free variables of mode f replaced by x
IsUpdateOf(s, t, f, base, bt, x) ==
    /\ s[1] = base[1] /\ s[3] = base[3] /\ s[5] = base[5]
    /\ f = "z" => /\ s[0] = x[0] /\ s[4] = x[1] /\ t = x[2]
                  /\ s[2] = base[2]
    /\ f = "period" => /\ s[0] = x[0] /\ s[2] = x[1] /\ s[4] = x[2]
                       /\ t = bt

\* C1: with a valid mode and no oracle or solver failure, the convergence flag
\* is set at most once, exactly at the first iteration whose residual norm is
\* below tolDC, the loop stops there (no further propagation or solver call),
\* and the returned flag is 0 iff no iteration in 1..iter_max was below tolDC.
C1_FlagAtFirstResidualBelowTol ==
    (Started(1) /\ Valid(1) /\ pc[1] # "error") =>
        LET n == Len(hist[1])
        IN  /\ conv_flag[1] \in {0, 1}
            /\ conv_flag[1] = 1 =>
                  /\ 1 <= n /\ n <= iter_max[1]
                  /\ ResidualBelow(1, n)
                  /\ \A k \in 1..(n - 1) : ~ResidualBelow(1, k)
                  /\ pc[1] \in {"ret", "done"}
                  /\ nprop[1] = n /\ nsolve[1] = n /\ iteration[1] = n - 1
            /\ (conv_flag[1] = 0 /\ pc[1] \in {"prop", "ret", "done"}) => NoneBelow(1)
            /\ pc[1] = "done" =>
                  /\ ret[1].conv_flag = conv_flag[1]
                  /\ ret[1].conv_flag = 0 <=> (n = iter_max[1] /\ NoneBelow(1))

C1_Witness ==
    /\ pc[1] = "done" /\ Valid(1) /\ ret[1].conv_flag = 1
    /\ Len(hist[1]) = 2 /\ iter_max[1] = 3

\* C2: whenever the call returns converged, the symmetry residual of the
\* returned state propagated over the returned half-period is below tolDC.
C2_ReturnedResidualBelowTol ==
    (pc[1] = "done" /\ ret[1].conv_flag = 1
        /\ ~OracleFails(mu[1], retstate[1], Half(ret[1].period))) =>
        LET e == ExtractFerr(propagate_cr3bp(mu[1], retstate[1], Half(ret[1].period)))
        IN  e[0] * e[0] + e[1] * e[1] + e[2] * e[2] < tolDC[1] * tolDC[1]

\* C3: with iter_max = 0 the call returns at once, for every state, period and
\* mode: no oracle or solver call, converged = false, the state and the period
\* those it was given.
C3_ZeroIterations ==
    (Started(1) /\ iter_max[1] = 0) =>
        /\ pc[1] \in {"ret", "done"}
        /\ nprop[1] = 0 /\ nsolve[1] = 0 /\ nwrite[1] = 0
        /\ arr[state0[1]] = entry[1]
        /\ pc[1] = "done" =>
              /\ ret[1].conv_flag = 0
              /\ ret[1].state = state0[1]
              /\ retstate[1] = entry[1]
              /\ ret[1].period = period0[1]

C3_Witness ==
    /\ pc[1] = "done" /\ iter_max[1] = 0 /\ fix[1] = "z"
    /\ period0[1] # 0 /\ entry[1][0] = 1

\* the counts and the result of a call whose residuals all stay >= tolDC
C4_ExhaustedResult ==
    (Started(1) /\ Valid(1)) =>
        /\ nprop[1] <= iter_max[1] /\ iteration[1] <= iter_max[1]
        /\ pc[1] = "error" =>
              \/ nsolve[1] < nprop[1]
                    /\ OracleFails(mu[1], lastprop[1].state, lastprop[1].thalf)
              \/ nsolve[1] = nprop[1]
                    /\ SolverFails(xi[1], ferr[1], BuildDf(fix[1], propout[1]))
        /\ (pc[1] = "done" /\ NoneBelow(1)) =>
              /\ nprop[1] = iter_max[1] /\ nsolve[1] = iter_max[1]
              /\ nwrite[1] = iter_max[1] /\ Len(hist[1]) = iter_max[1]
              /\ ret[1].conv_flag = 0
              /\ ret[1].period = 2 * thalf[1]
              /\ IF iter_max[1] = 0
                 THEN retstate[1] = entry[1] /\ ret[1].period = period0[1]
                 ELSE IsUpdateOf(retstate[1], thalf[1], fix[1], lastprop[1].state,
                                 lastprop[1].thalf, xii[1])

\* C4: when all iter_max iterations have a residual norm >= tolDC and nothing
\* fails, the call ends after exactly iter_max propagations and iter_max solver
\* updates, raises nothing, and returns converged = false with the last
\* computed state and twice the last computed half-period.
C4_BudgetExhausted ==
    /\ []C4_ExhaustedResult
    /\ [](Started(1) => <>(pc[1] \in {"done", "error"}))

C4_Witness ==
    /\ pc[1] = "done" /\ Valid(1) /\ ret[1].conv_flag = 0
    /\ iter_max[1] = 3 /\ nprop[1] = 3 /\ tolDC[1] > 0
    /\ retstate[1] # entry[1]

\* C5: a mode other than "z" and "period" fails fast for every iter_max: no
\* result is ever returned and the oracle is never called.
C5_InvalidModeFailsFast ==
    (Started(1) /\ ~Valid(1)) =>
        /\ pc[1] # "done"
        /\ nprop[1] = 0

\* C7: the caller's initial-state array holds the same values after the call,
\* returned or failed, as when the call was made.
C7_CallerStateUntouched ==
    pc[1] \in {"done", "error"} => arr[state0[1]] = entry[1]

\* C8: each of two interleaved calls ends as it would have run alone from the
\* arguments it was given.
C8_NoInterference ==
    \A r \in Runs :
        pc[r] \in {"done", "error"} =>
            LET solo == SoloRun(mu[r], fix[r], tolDC[r], iter_max[r], entry[r],
                                Half(period0[r]), 0)
            IN  IF pc[r] = "error" THEN solo.raised
                ELSE /\ ~solo.raised
                     /\ ret[r].period = solo.period
                     /\ retstate[r] = solo.state
                     /\ ret[r].conv_flag = solo.conv_flag


\* a failed oracle or solver call is the last call made, and nothing is returned
C6_FailedCallIsLast ==
    Started(1) =>
        /\ (nsolve[1] < nprop[1]
              /\ OracleFails(mu[1], lastprop[1].state, lastprop[1].thalf)) =>
                 pc[1] = "error"
        /\ (Valid(1) /\ nsolve[1] >= 1 /\ nsolve[1] = nprop[1] /\ nwrite[1] < nsolve[1]
              /\ SolverFails(xi[1], ferr[1], BuildDf(fix[1], propout[1]))) =>
                 pc[1] = "error"
        /\ pc[1] = "error" =>
              /\ ret[1] = NoRet
              /\ nprop[1] = iteration[1] + 1
              /\ nwrite[1] = iteration[1]
              /\ nsolve[1] \in {iteration[1], iteration[1] + 1}

\* C6: a failure of the oracle or of the solver at iteration k ends the whole
\* call as a failure: no retry, no fallback, no oracle or solver call after the
\* failing one, and no result.
C6_FailureIsFatal ==
    /\ []C6_FailedCallIsLast
    /\ [][pc[1] = "error" => UNCHANGED <<pc, arr, ret, nprop, nsolve, nwrite>>]_vars

C6_Witness ==
    /\ pc[1] = "error" /\ Valid(1) /\ iteration[1] = 2
    /\ nsolve[1] = 3 /\ nwrite[1] = 2
    /\ SolverFails(xi[1], ferr[1], BuildDf(fix[1], propout[1]))

\* C9: each iteration propagates, solves, writes back and only then tests the
\* residual: the write-back happens in the converging iteration too, there are
\* as many write-backs as propagations, and the state returned as converged is
\* the solver output of the converging iteration, not the state propagated.
C9_WriteBackBeforeTest ==
    (Started(1) /\ Valid(1)) =>
        /\ nwrite[1] <= nsolve[1] /\ nsolve[1] <= nprop[1] /\ nprop[1] <= nwrite[1] + 1
        /\ pc[1] = "prop" => nprop[1] = iteration[1] /\ nwrite[1] = nprop[1]
        /\ pc[1] = "solve" => nprop[1] = iteration[1] + 1 /\ nsolve[1] = iteration[1]
        /\ pc[1] = "write" => nsolve[1] = iteration[1] + 1 /\ nwrite[1] = iteration[1]
        /\ pc[1] = "check" => nwrite[1] = iteration[1] + 1 /\ nprop[1] = nwrite[1]
        /\ pc[1] \in {"ret", "done"} => nwrite[1] = nprop[1] /\ nsolve[1] = nprop[1]
        /\ conv_flag[1] = 1 =>
              /\ nwrite[1] = Len(hist[1])
              /\ ResidualBelow(1, Len(hist[1]))
              /\ hist[1][Len(hist[1])] =
                    [i \in Idx3 |-> propagate_cr3bp(mu[1], lastprop[1].state,
                                                    lastprop[1].thalf).statef[2 * i + 1]]
              /\ IsUpdateOf(arr[state[1]], thalf[1], fix[1], lastprop[1].state,
                            lastprop[1].thalf, xii[1])
              /\ pc[1] = "done" =>
                    /\ retstate[1] = arr[state[1]]
                    /\ ret[1].period = 2 * thalf[1]

C9_Witness ==
    /\ pc[1] = "done" /\ Valid(1) /\ ret[1].conv_flag = 1
    /\ retstate[1] # lastprop[1].state
    /\ nwrite[1] = 2

\* C10: the write-back changes only the free variables of the mode: with
\* "period" the half-period never changes (the returned period is the guess)
\* and only indices 0, 2, 4 are written; with "z" index 2 never changes and
\* only indices 0, 4 and the half-period are written; indices 1, 3, 5 keep
\* their initial values in both.
C10_OnlyFreeVariablesWritten ==
    (Started(1) /\ Valid(1)) =>
        /\ \A i \in {1, 3, 5} : arr[state0[1]][i] = entry[1][i]
        /\ fix[1] = "period" =>
              /\ 2 * thalf[1] = period0[1]
              /\ pc[1] = "done" => ret[1].period = period0[1]
        /\ fix[1] = "z" => arr[state0[1]][2] = entry[1][2]

C10_Witness ==
    /\ pc[1] = "done" /\ fix[1] = "z" /\ nwrite[1] >= 2
    /\ arr[state0[1]][0] # entry[1][0]
    /\ arr[state0[1]][4] # entry[1][4]
    /\ ret[1].period # period0[1]

\* the same case in "period" mode
C10_WitnessPeriod ==
    /\ pc[1] = "done" /\ fix[1] = "period" /\ nwrite[1] >= 2
    /\ arr[state0[1]][2] # entry[1][2]

====
